---- MODULE Spec2Model ----
(***************************************************************************)
(* create-nocdn-app: the scaffolding CLI of src/index.js (and its earlier  *)
(* revision src/unnamed/part_000), as a state machine.                     *)
(*                                                                         *)
(* A run is one invocation of the script.  Every `await` of main() is one  *)
(* step of the run; the filesystem of the working directory and the wall   *)
(* clock are shared by the runs.  Strings that the code inspects character *)
(* by character (project names, descriptions) are sequences of one-        *)
(* character strings; the layout file is a record of token sequences in    *)
(* which the token PH stands for the text {{project-name}}.                *)
(***************************************************************************)
EXTENDS Integers, Sequences, FiniteSets, TLC

\* runs:           the state of each invocation of the script
\* dirs:           the directories of the working directory, by project name
\* temps:          the temporary clone directories .temp-<t>, by timestamp t
\* clock:          the last value Date.now() returned
\* templateSource: what the template directory of the repository (and of the
\*                 local fixture) may hold when it is fetched
VARIABLES runs, dirs, temps, clock, templateSource

vars == <<runs, dirs, temps, clock, templateSource>>

(***************************************************************************)
(* Bounds of the exploration.                                              *)
(***************************************************************************)
MaxNameLen == 1
MaxDescLen == 2
MaxTime == 1
MaxFlags == 4

Runs == {"A", "B"}
Times == 0..MaxTime

(***************************************************************************)
(* Strings.                                                                *)
(***************************************************************************)
Strings(alphabet, n) == UNION {[1..k -> alphabet] : k \in 0..n}

NameAlphabet == {"a", "-", "A"}
DescAlphabet == {" ", "&", "$"}
TypedNames == Strings(NameAlphabet, MaxNameLen)
TypedDescriptions == Strings(DescAlphabet, MaxDescLen)
TypedTexts == {<<>>, <<"x">>}

\* a JS string is truthy iff it is not empty
Truthy(s) == Len(s) > 0

\* String.prototype.startsWith, for a one-character prefix
startsWith(s, c) == Len(s) > 0 /\ s[1] = c

Whitespace == {" ", "\t", "\n"}

RECURSIVE trimStart(_)
trimStart(s) == IF Len(s) > 0 /\ s[1] \in Whitespace THEN trimStart(Tail(s)) ELSE s

RECURSIVE trimEnd(_)
trimEnd(s) ==
  IF Len(s) > 0 /\ s[Len(s)] \in Whitespace THEN trimEnd(SubSeq(s, 1, Len(s) - 1)) ELSE s

\* String.prototype.trim
trim(s) == trimEnd(trimStart(s))

(***************************************************************************)
(* Command line.                                                           *)
(***************************************************************************)
FlagTokens ==
  {"-h", "--help", "-v", "--version", "--skip-install", "--skip-git", "--open",
   "--use-npm", "--use-pnpm", "--testing"}

\* positional arguments: the strings that do not start with "-"
CliNames == {n \in TypedNames : ~startsWith(n, "-")}

\* args: the set of option tokens given and the positional arguments in order
CommandLines ==
  {[tokens |-> t, positional |-> p] :
     t \in {s \in SUBSET FlagTokens : Cardinality(s) <= MaxFlags},
     p \in {<<>>} \cup {<<n>> : n \in CliNames}}

flags(args) ==
  [help        |-> "-h" \in args.tokens \/ "--help" \in args.tokens,
   version     |-> "-v" \in args.tokens \/ "--version" \in args.tokens,
   skipInstall |-> "--skip-install" \in args.tokens,
   skipGit     |-> "--skip-git" \in args.tokens,
   open        |-> "--open" \in args.tokens,
   useNpm      |-> "--use-npm" \in args.tokens,
   usePnpm     |-> "--use-pnpm" \in args.tokens,
   testing     |-> "--testing" \in args.tokens]

\* args.find(arg => !arg.startsWith("-")): the first positional, or undefined
HasCliProjectName(args) == Len(args.positional) > 0
cliProjectName(args) == IF HasCliProjectName(args) THEN args.positional[1] ELSE <<>>

\* if (cliProjectName): undefined and "" are both falsy
CliNameGiven(args) == HasCliProjectName(args) /\ Truthy(cliProjectName(args))

StartupChecksVersionFirst(f) ==
  IF f.version THEN "showVersion" ELSE IF f.help THEN "showHelp" ELSE "main"

\* if (flags.help) showHelp(); if (flags.version) showVersion();
Startup(f) ==
  IF f.help THEN "showHelp" ELSE IF f.version THEN "showVersion" ELSE "main"

(***************************************************************************)
(* validateProjectName                                                     *)
(***************************************************************************)
NameChars ==
  {"a", "b", "c", "d", "e", "f", "g", "h", "i", "j", "k", "l", "m", "n", "o", "p",
   "q", "r", "s", "t", "u", "v", "w", "x", "y", "z",
   "0", "1", "2", "3", "4", "5", "6", "7", "8", "9", "-"}

NoError == "undefined"

validateNotEmpty(value) ==
  IF Len(value) = 0 THEN "Project name is required" ELSE NoError

validateProjectName(value) ==
  IF Len(value) = 0 THEN "Project name is required"
  ELSE IF ~(\A i \in 1..Len(value) : value[i] \in NameChars)
       THEN "Project name must be lowercase, alphanumeric, and can contain hyphens"
       ELSE NoError

ValidNames == {n \in TypedNames : validateProjectName(n) = NoError}

getPackageManager(f) ==
  IF f.useNpm THEN [name |-> "npm", install |-> "npm install"]
  ELSE IF f.usePnpm THEN [name |-> "pnpm", install |-> "pnpm install"]
       ELSE [name |-> "bun", install |-> "bun install"]

runCmd(pm) == IF pm.name = "bun" THEN "bun run dev"
              ELSE IF pm.name = "npm" THEN "npm run dev" ELSE "pnpm run dev"

(***************************************************************************)
(* The template and the filesystem.                                        *)
(***************************************************************************)
\* the token {{project-name}} of the template's layout file
PH == "{{project-name}}"

TemplatePkgName == <<"n", "e", "x", "t">>

PkgOk == [state |-> "ok", name |-> TemplatePkgName]
PkgMissing == [state |-> "missing", name |-> <<>>]
PkgInvalid == [state |-> "invalid", name |-> <<>>]

\* app/layout.tsx: the value of its title field, the rest of its text, and its
\* description field; hasDesc says that a description field is present and is
\* followed by ",\n" or "\n};", which is when the description pattern matches
LayoutCanonical ==
  [exists |-> TRUE, title |-> <<PH>>, body |-> <<>>, hasDesc |-> TRUE, desc |-> <<"t">>]
LayoutTwice ==
  [exists |-> TRUE, title |-> <<PH>>, body |-> <<"<", PH, ">">>, hasDesc |-> TRUE,
   desc |-> <<"t">>]
LayoutNoPlaceholder ==
  [exists |-> TRUE, title |-> <<"x">>, body |-> <<>>, hasDesc |-> TRUE, desc |-> <<"t">>]
LayoutNoDescription ==
  [exists |-> TRUE, title |-> <<PH>>, body |-> <<>>, hasDesc |-> FALSE, desc |-> <<>>]
LayoutMissing ==
  [exists |-> FALSE, title |-> <<>>, body |-> <<>>, hasDesc |-> FALSE, desc |-> <<>>]

\* what the template directory (templates/next, or template) may hold
Templates ==
  {[present |-> TRUE, pkg |-> PkgOk, layout |-> l] :
     l \in {LayoutCanonical, LayoutTwice, LayoutNoPlaceholder, LayoutNoDescription,
            LayoutMissing}}
  \cup {[present |-> TRUE, pkg |-> p, layout |-> LayoutCanonical] :
          p \in {PkgMissing, PkgInvalid}}
  \cup {[present |-> FALSE, pkg |-> PkgMissing, layout |-> LayoutMissing]}

NoAgents == [null |-> TRUE, text |-> <<>>]

NoDir ==
  [exists |-> FALSE, kind |-> "none", pkg |-> PkgMissing, layout |-> LayoutMissing,
   agentsMd |-> NoAgents, nodeModules |-> FALSE, git |-> "none"]
\* a directory that was there before the run started
ForeignDir == [NoDir EXCEPT !.exists = TRUE, !.kind = "foreign"]
\* what a failed recursive copy may leave behind
PartialDir == [NoDir EXCEPT !.exists = TRUE, !.kind = "partial"]
ProjectDir(tpl) ==
  [NoDir EXCEPT !.exists = TRUE, !.kind = "project", !.pkg = tpl.pkg,
                !.layout = tpl.layout]

NoTemplate == [present |-> FALSE, pkg |-> PkgMissing, layout |-> LayoutMissing]
NoTemp == [exists |-> FALSE, tpl |-> NoTemplate]

\* fs.access(projectPath) resolves iff something exists at the path
fsAccess(d, name) == d[name].exists

AccessReservesPath(d, name) == [d EXCEPT ![name] = PartialDir]

\* fs.access only looks: the filesystem after the call is the one before it
AfterAccess(d, name) == d

(***************************************************************************)
(* Personalization of app/layout.tsx.                                      *)
(***************************************************************************)
\* the replacement patterns String.prototype.replace expands in a replacement
\* string: $$ is a dollar sign and $& is the matched text
RECURSIVE Expand(_, _)
Expand(repl, matched) ==
  IF Len(repl) < 2 THEN repl
  ELSE IF repl[1] = "$" /\ repl[2] = "$"
       THEN <<"$">> \o Expand(SubSeq(repl, 3, Len(repl)), matched)
       ELSE IF repl[1] = "$" /\ repl[2] = "&"
            THEN matched \o Expand(SubSeq(repl, 3, Len(repl)), matched)
            ELSE <<repl[1]>> \o Expand(Tail(repl), matched)

\* text.replace(/\{\{project-name\}\}/g, projectName)
RECURSIVE ReplaceAllPlaceholders(_, _)
ReplaceAllPlaceholders(text, name) ==
  IF Len(text) = 0 THEN <<>>
  ELSE (IF text[1] = PH THEN Expand(name, <<PH>>) ELSE <<text[1]>>)
       \o ReplaceAllPlaceholders(Tail(text), name)

\* layoutContent.replace(/\{\{project-name\}\}/g, projectName)
ReplacePlaceholder(layout, name) ==
  [layout EXCEPT !.title = ReplaceAllPlaceholders(@, name),
                 !.body = ReplaceAllPlaceholders(@, name),
                 !.desc = ReplaceAllPlaceholders(@, name)]

\* layoutContent.replace(/title:\s*["']\{\{project-name\}\}["']/, `title: "${projectName}"`)
ReplaceTitle(layout, name) ==
  IF layout.title = <<PH>>
  THEN [layout EXCEPT !.title = Expand(name, <<"title: ", PH>>)]
  ELSE layout

\* if (projectDescription && projectDescription.trim())
DescriptionGiven(description) == Truthy(description) /\ Truthy(trim(description))

\* layoutContent.replace(/description:\s*[\s\S]*?(?=,\n|\n\};)/,
\*                       `description: "${projectDescription.trim()}"`)
ReplaceDescription(layout, description) ==
  IF DescriptionGiven(description) /\ layout.hasDesc
  THEN [layout EXCEPT
          !.desc = Expand(trim(description), <<"description: ">> \o layout.desc)]
  ELSE layout

Variants == {"index", "part_000"}

\* the layout rewrite of the two revisions of main()
PersonalizeLayout(variant, layout, name, description) ==
  ReplaceDescription(
    IF variant = "index" THEN ReplacePlaceholder(layout, name)
                         ELSE ReplaceTitle(layout, name),
    description)

(***************************************************************************)
(* AGENTS.md                                                               *)
(***************************************************************************)
RuntimeOptions == {"bun", "npm", "pnpm", "yarn"}
AgentsOptions == {"blank-edit", "minimal", "minimal-edit"}
FrameworkOptions == {"next", "vite"}

minimalContent(runtime) ==
  <<"For this project you must only use ", runtime,
    " for installing dependencies, running builds, dev servers, linting, formatting, etc. Look in the package.json for the scripts. You must NOT use the other package managers/runtimes unless the user specifies.">>

\* a || b on strings
OrElse(a, b) == IF Truthy(a) THEN a ELSE b

(***************************************************************************)
(* The user at the terminal: for each prompt, the answers the user may     *)
(* give.  A prompt resolves to a value or to clack's cancel symbol.        *)
(***************************************************************************)
Choice(S) == {[cancel |-> FALSE, value |-> v] : v \in S}
CancelChoice == [cancel |-> TRUE, value |-> ""]
CancelText == [cancel |-> TRUE, value |-> <<>>]
CancelConfirm == [cancel |-> TRUE, value |-> FALSE]

isCancelNever(answer) == FALSE

\* clack.isCancel
isCancel(answer) == answer.cancel

\* answers at every prompt, but no description and no AGENTS.md
TerseUser ==
  [framework    |-> Choice(FrameworkOptions) \cup {CancelChoice},
   name         |-> Choice({<<"a">>}) \cup {CancelText},
   description  |-> Choice({<<>>}) \cup {CancelText},
   createAgents |-> Choice({FALSE}) \cup {CancelConfirm},
   agentsOption |-> {CancelChoice},
   content      |-> {CancelText},
   runtime      |-> {CancelChoice},
   edited       |-> {CancelText}]

\* any name and any description
Describer ==
  [TerseUser EXCEPT !.framework = Choice({"next"}),
                    !.name = Choice(TypedNames),
                    !.description = Choice(TypedDescriptions)]

\* any AGENTS.md
Author ==
  [framework    |-> Choice({"next"}),
   name         |-> Choice({<<"a">>}),
   description  |-> Choice({<<>>}),
   createAgents |-> Choice(BOOLEAN),
   agentsOption |-> Choice(AgentsOptions) \cup {CancelChoice},
   content      |-> Choice(TypedTexts) \cup {CancelText},
   runtime      |-> Choice(RuntimeOptions) \cup {CancelChoice},
   edited       |-> Choice(TypedTexts) \cup {CancelText}]

(***************************************************************************)
(* A run.                                                                  *)
(***************************************************************************)
NewRun(args, variant, tty) ==
  [pc |-> "start", exitCode |-> -1, log |-> <<>>,
   args |-> args, variant |-> variant, tty |-> tty,
   projectName |-> <<>>, projectDescription |-> <<>>,
   agentsContent |-> NoAgents, agentsOption |-> "", runtime |-> "",
   layoutContent |-> LayoutMissing, tempPath |-> -1]

\* an invocation that is never made
IdleRun == [NewRun([tokens |-> {}, positional |-> <<>>], "index", TerseUser)
              EXCEPT !.pc = "off"]

Say(rec, line) == [rec EXCEPT !.log = Append(@, line)]

\* process.exit(code), and the end of main()
Exit(rec, code) == [rec EXCEPT !.pc = "exited", !.exitCode = code]

\* what the user did at the prompt
Heard(rec, answer) == IF answer.cancel THEN Say(rec, "user:cancel") ELSE rec

\* clack.cancel("Operation cancelled"); process.exit(0);
OnCancel(rec) == Exit(Say(rec, "cancel:Operation cancelled"), 0)

CatchAndCarryOn(rec) == Say(Say(rec, "s.stop:Error occurred"), "log.error:error.message")

\* catch (error) { s.stop(...); clack.log.error(...); clack.cancel("Setup failed");
\*                 process.exit(1); }
Catch(rec) ==
  Exit(Say(Say(Say(rec, "s.stop:Error occurred"), "log.error:error.message"),
           "cancel:Setup failed"), 1)

\* an awaited operation rejects inside the try block
Thrown(rec) == Catch(Say(rec, "throw"))

Outcomes == {"ok", "throw"}

\* fs.rm(tempPath, { recursive: true, force: true }): force only ignores a path
\* that does not exist; any other error rejects
rmOutcomes(exists) == IF exists THEN {"ok", "throw"} ELSE {"ok"}

ExistenceGuardIgnored(exists) == "continue"

\* try { await fs.access(projectPath); clack.cancel(...); process.exit(1); } catch {}
ExistenceGuard(exists) == IF exists THEN "exit" ELSE "continue"

\* if (flags.open) ...
AfterGit(f) == IF f.open THEN "open" ELSE "summary"

AfterInstallIgnoringSkipGit(f) == "gitInit"

\* if (!flags.skipGit) ...
AfterInstall(f) == IF ~f.skipGit THEN "gitInit" ELSE AfterGit(f)

\* if (!flags.skipInstall) ...
AfterConfigure(f) == IF ~f.skipInstall THEN "install" ELSE AfterInstall(f)

Set(r, rec) == runs' = [runs EXCEPT ![r] = rec]

(***************************************************************************)
(* Startup: the module's top-level statements.                             *)
(***************************************************************************)
ShowHelp(r) ==
  /\ runs[r].pc = "start"
  /\ Startup(flags(runs[r].args)) = "showHelp"
  /\ Set(r, Exit(Say(runs[r], "showHelp"), 0))
  /\ UNCHANGED <<dirs, temps, clock, templateSource>>

ShowVersion(r) ==
  /\ runs[r].pc = "start"
  /\ Startup(flags(runs[r].args)) = "showVersion"
  /\ Set(r, Exit(Say(runs[r], "showVersion"), 0))
  /\ UNCHANGED <<dirs, temps, clock, templateSource>>

EnterMain(r) ==
  /\ runs[r].pc = "start"
  /\ Startup(flags(runs[r].args)) = "main"
  /\ Set(r, [Say(runs[r], "intro") EXCEPT
               !.pc = IF runs[r].variant = "index" THEN "framework" ELSE "name"])
  /\ UNCHANGED <<dirs, temps, clock, templateSource>>

(***************************************************************************)
(* The prompts.                                                            *)
(***************************************************************************)
SelectFramework(r) ==
  /\ runs[r].pc = "framework"
  /\ \E answer \in runs[r].tty.framework :
       LET asked == Heard(Say(runs[r], "select:framework"), answer)
       IN Set(r, IF isCancel(answer) THEN OnCancel(asked)
                 ELSE IF answer.value = "vite"
                      THEN Exit(Say(Say(asked, "log.info:Coming soon!"),
                                    "outro:Stay tuned for Vite support"), 0)
                      ELSE [asked EXCEPT !.pc = "name"])
  /\ UNCHANGED <<dirs, temps, clock, templateSource>>

UseCliProjectName(r) ==
  /\ runs[r].pc = "name"
  /\ CliNameGiven(runs[r].args)
  /\ LET name == cliProjectName(runs[r].args)
         validationError == validateProjectName(name)
     IN Set(r, IF validationError # NoError
               THEN Exit(Say(Say(runs[r], validationError),
                             "cancel:Invalid project name"), 1)
               ELSE [Say(runs[r], "log.info:Creating project") EXCEPT
                       !.projectName = name, !.pc = "description"])
  /\ UNCHANGED <<dirs, temps, clock, templateSource>>

\* the prompt's validate option keeps an invalid value from being submitted
AskProjectName(r) ==
  /\ runs[r].pc = "name"
  /\ ~CliNameGiven(runs[r].args)
  /\ \E answer \in {a \in runs[r].tty.name :
                      a.cancel \/ validateProjectName(a.value) = NoError} :
       LET asked == Heard(Say(runs[r], "text:project name"), answer)
       IN Set(r, IF isCancel(answer) THEN OnCancel(asked)
                 ELSE [asked EXCEPT !.projectName = answer.value,
                                    !.pc = "description"])
  /\ UNCHANGED <<dirs, temps, clock, templateSource>>

AskDescription(r) ==
  /\ runs[r].pc = "description"
  /\ \E answer \in runs[r].tty.description :
       LET asked == Heard(Say(runs[r], "text:description"), answer)
       IN Set(r, IF isCancel(answer) THEN OnCancel(asked)
                 ELSE [asked EXCEPT
                         !.projectDescription = answer.value,
                         !.pc = IF runs[r].variant = "index" THEN "createAgents"
                                ELSE "guard"])
  /\ UNCHANGED <<dirs, temps, clock, templateSource>>

ConfirmAgentsMd(r) ==
  /\ runs[r].pc = "createAgents"
  /\ \E answer \in runs[r].tty.createAgents :
       LET asked == Heard(Say(runs[r], "confirm:AGENTS.md"), answer)
       IN Set(r, IF isCancel(answer) THEN OnCancel(asked)
                 ELSE [asked EXCEPT
                         !.pc = IF answer.value THEN "agentsOption" ELSE "guard"])
  /\ UNCHANGED <<dirs, temps, clock, templateSource>>

SelectAgentsOption(r) ==
  /\ runs[r].pc = "agentsOption"
  /\ \E answer \in runs[r].tty.agentsOption :
       LET asked == Heard(Say(runs[r], "select:AGENTS.md mode"), answer)
       IN Set(r, IF isCancel(answer) THEN OnCancel(asked)
                 ELSE [asked EXCEPT
                         !.agentsOption = answer.value,
                         !.pc = IF answer.value = "blank-edit" THEN "content"
                                ELSE "runtime"])
  /\ UNCHANGED <<dirs, temps, clock, templateSource>>

AskContent(r) ==
  /\ runs[r].pc = "content"
  /\ \E answer \in runs[r].tty.content :
       LET asked == Heard(Say(runs[r], "text:AGENTS.md content"), answer)
       IN Set(r, IF isCancel(answer) THEN OnCancel(asked)
                 ELSE [asked EXCEPT
                         !.agentsContent =
                            [null |-> FALSE, text |-> OrElse(answer.value, <<>>)],
                         !.agentsOption = "",
                         !.pc = "guard"])
  /\ UNCHANGED <<dirs, temps, clock, templateSource>>

SelectRuntime(r) ==
  /\ runs[r].pc = "runtime"
  /\ \E answer \in runs[r].tty.runtime :
       LET asked == Heard(Say(runs[r], "select:runtime"), answer)
       IN Set(r, IF isCancel(answer) THEN OnCancel(asked)
                 ELSE IF runs[r].agentsOption = "minimal-edit"
                      THEN [asked EXCEPT !.runtime = answer.value, !.pc = "edit"]
                      ELSE [asked EXCEPT
                              !.agentsContent =
                                 [null |-> FALSE, text |-> minimalContent(answer.value)],
                              !.agentsOption = "",
                              !.pc = "guard"])
  /\ UNCHANGED <<dirs, temps, clock, templateSource>>

EditMinimalContent(r) ==
  /\ runs[r].pc = "edit"
  /\ \E answer \in runs[r].tty.edited :
       LET asked == Heard(Say(runs[r], "text:edit AGENTS.md"), answer)
       IN Set(r, IF isCancel(answer) THEN OnCancel(asked)
                 ELSE [asked EXCEPT
                         !.agentsContent =
                            [null |-> FALSE,
                             text |-> OrElse(answer.value, minimalContent(runs[r].runtime))],
                         !.agentsOption = "",
                         !.runtime = "",
                         !.pc = "guard"])
  /\ UNCHANGED <<dirs, temps, clock, templateSource>>

(***************************************************************************)
(* The try block of main(): guard, acquisition, personalization,           *)
(* provisioning, summary.                                                  *)
(***************************************************************************)
Guard(r) ==
  /\ runs[r].pc = "guard"
  /\ LET name == runs[r].projectName
         exists == fsAccess(dirs, name)
         looked == Say(runs[r], IF exists THEN "fs.access:exists" ELSE "fs.access:absent")
     IN /\ Set(r, IF ExistenceGuard(exists) = "exit"
                  THEN Exit(Say(looked, "cancel:Directory already exists"), 1)
                  ELSE [looked EXCEPT !.pc = "acquire"])
        /\ dirs' = AfterAccess(dirs, name)
  /\ UNCHANGED <<temps, clock, templateSource>>

\* fs.cp(localTemplatePath, projectPath, { recursive: true }): copies over whatever
\* is at the destination; a copy that fails may leave part of the tree behind
CopyTemplate(r) ==
  /\ runs[r].pc = "acquire"
  /\ flags(runs[r].args).testing
  /\ \E tpl \in templateSource, outcome \in Outcomes :
       LET name == runs[r].projectName
           tried == Say(runs[r], "fs.cp")
       IN IF tpl.present /\ outcome = "ok"
          THEN /\ Set(r, [tried EXCEPT !.pc = "readPkg"])
               /\ dirs' = [dirs EXCEPT ![name] =
                             [@ EXCEPT !.exists = TRUE, !.kind = "project",
                                       !.pkg = tpl.pkg, !.layout = tpl.layout]]
          ELSE /\ Set(r, Thrown(tried))
               /\ dirs' \in {dirs,
                             [dirs EXCEPT ![name] = IF @.exists THEN @ ELSE PartialDir]}
  /\ UNCHANGED <<temps, clock, templateSource>>

\* tempPath = `.temp-${Date.now()}`; git clone --depth 1 <url> "${tempPath}":
\* git refuses a destination that exists and is not empty
CloneTemplate(r) ==
  /\ runs[r].pc = "acquire"
  /\ ~flags(runs[r].args).testing
  /\ \E t \in clock..MaxTime :
       LET tried == [Say(runs[r], "exec:git clone") EXCEPT !.tempPath = t]
       IN /\ clock' = t
          /\ IF temps[t].exists
             THEN Set(r, Thrown(tried)) /\ UNCHANGED temps
             ELSE \E tpl \in templateSource, outcome \in Outcomes :
                    IF outcome = "ok"
                    THEN /\ Set(r, [tried EXCEPT !.pc = "rename"])
                         /\ temps' = [temps EXCEPT ![t] = [exists |-> TRUE, tpl |-> tpl]]
                    ELSE Set(r, Thrown(tried)) /\ UNCHANGED temps
  /\ UNCHANGED <<dirs, templateSource>>

\* fs.rename(path.join(tempPath, "templates", "next"), projectPath)
MoveTemplate(r) ==
  /\ runs[r].pc = "rename"
  /\ \E outcome \in Outcomes :
       LET name == runs[r].projectName
           t == runs[r].tempPath
           tried == Say(runs[r], "fs.rename")
       IN IF /\ outcome = "ok"
             /\ temps[t].exists
             /\ temps[t].tpl.present
             /\ ~dirs[name].exists
          THEN /\ Set(r, [tried EXCEPT !.pc = "rm"])
               /\ dirs' = [dirs EXCEPT ![name] = ProjectDir(temps[t].tpl)]
               /\ temps' = [temps EXCEPT ![t].tpl = NoTemplate]
          ELSE Set(r, Thrown(tried)) /\ UNCHANGED <<dirs, temps>>
  /\ UNCHANGED <<clock, templateSource>>

RemoveTemp(r) ==
  /\ runs[r].pc = "rm"
  /\ LET t == runs[r].tempPath
         tried == Say(runs[r], "fs.rm")
     IN \E outcome \in rmOutcomes(temps[t].exists) :
          IF outcome = "ok"
          THEN /\ Set(r, [tried EXCEPT !.pc = "readPkg"])
               /\ temps' = [temps EXCEPT ![t] = NoTemp]
          ELSE Set(r, Thrown(tried)) /\ UNCHANGED temps
  /\ UNCHANGED <<dirs, clock, templateSource>>

\* JSON.parse(await fs.readFile(packageJsonPath, "utf-8"))
ReadPackageJson(r) ==
  /\ runs[r].pc = "readPkg"
  /\ \E outcome \in Outcomes :
       LET d == dirs[runs[r].projectName]
           tried == Say(runs[r], "fs.readFile:package.json")
       IN Set(r, IF outcome = "ok" /\ d.exists /\ d.pkg.state = "ok"
                 THEN [tried EXCEPT !.pc = "writePkg"]
                 ELSE Thrown(tried))
  /\ UNCHANGED <<dirs, temps, clock, templateSource>>

\* packageJson.name = projectName; fs.writeFile(packageJsonPath, JSON.stringify(...))
WritePackageJson(r) ==
  /\ runs[r].pc = "writePkg"
  /\ \E outcome \in Outcomes :
       LET name == runs[r].projectName
           tried == Say(runs[r], "fs.writeFile:package.json")
       IN IF outcome = "ok"
          THEN /\ Set(r, [tried EXCEPT !.pc = "readLayout"])
               /\ dirs' = [dirs EXCEPT ![name].pkg = [state |-> "ok", name |-> name]]
          ELSE Set(r, Thrown(tried)) /\ UNCHANGED dirs
  /\ UNCHANGED <<temps, clock, templateSource>>

\* layoutContent = await fs.readFile(layoutPath), then the two replace calls
ReadLayout(r) ==
  /\ runs[r].pc = "readLayout"
  /\ \E outcome \in Outcomes :
       LET d == dirs[runs[r].projectName]
           tried == Say(runs[r], "fs.readFile:layout.tsx")
       IN Set(r, IF outcome = "ok" /\ d.exists /\ d.layout.exists
                 THEN [tried EXCEPT
                         !.layoutContent =
                            PersonalizeLayout(runs[r].variant, d.layout,
                                              runs[r].projectName,
                                              runs[r].projectDescription),
                         !.pc = "writeLayout"]
                 ELSE Thrown(tried))
  /\ UNCHANGED <<dirs, temps, clock, templateSource>>

WriteLayout(r) ==
  /\ runs[r].pc = "writeLayout"
  /\ \E outcome \in Outcomes :
       LET name == runs[r].projectName
           tried == Say(runs[r], "fs.writeFile:layout.tsx")
       IN IF outcome = "ok"
          THEN /\ Set(r, [tried EXCEPT
                            !.layoutContent = LayoutMissing,
                            !.pc = IF runs[r].variant = "index"
                                      /\ ~runs[r].agentsContent.null
                                   THEN "writeAgents"
                                   ELSE AfterConfigure(flags(runs[r].args))])
               /\ dirs' = [dirs EXCEPT ![name].layout = runs[r].layoutContent]
          ELSE Set(r, Thrown(tried)) /\ UNCHANGED dirs
  /\ UNCHANGED <<temps, clock, templateSource>>

\* if (agentsContent !== null) fs.writeFile(agentsMdPath, agentsContent)
WriteAgentsMd(r) ==
  /\ runs[r].pc = "writeAgents"
  /\ \E outcome \in Outcomes :
       LET name == runs[r].projectName
           tried == Say(runs[r], "fs.writeFile:AGENTS.md")
       IN IF outcome = "ok"
          THEN /\ Set(r, [tried EXCEPT !.pc = AfterConfigure(flags(runs[r].args))])
               /\ dirs' = [dirs EXCEPT ![name].agentsMd = runs[r].agentsContent]
          ELSE Set(r, Thrown(tried)) /\ UNCHANGED dirs
  /\ UNCHANGED <<temps, clock, templateSource>>

\* execAsync(pm.install, { cwd: projectPath })
Install(r) ==
  /\ runs[r].pc = "install"
  /\ \E outcome \in Outcomes :
       LET name == runs[r].projectName
           tried == Say(runs[r], getPackageManager(flags(runs[r].args)).install)
       IN IF outcome = "ok"
          THEN /\ Set(r, [tried EXCEPT !.pc = AfterInstall(flags(runs[r].args))])
               /\ dirs' = [dirs EXCEPT ![name].nodeModules = TRUE]
          ELSE Set(r, Thrown(tried)) /\ UNCHANGED dirs
  /\ UNCHANGED <<temps, clock, templateSource>>

GitInit(r) ==
  /\ runs[r].pc = "gitInit"
  /\ \E outcome \in Outcomes :
       LET name == runs[r].projectName
           tried == Say(runs[r], "git init")
       IN IF outcome = "ok"
          THEN /\ Set(r, [tried EXCEPT !.pc = "gitAdd"])
               /\ dirs' = [dirs EXCEPT ![name].git = "initialized"]
          ELSE Set(r, Thrown(tried)) /\ UNCHANGED dirs
  /\ UNCHANGED <<temps, clock, templateSource>>

GitAdd(r) ==
  /\ runs[r].pc = "gitAdd"
  /\ \E outcome \in Outcomes :
       LET name == runs[r].projectName
           tried == Say(runs[r], "git add .")
       IN IF outcome = "ok"
          THEN /\ Set(r, [tried EXCEPT !.pc = "gitCommit"])
               /\ dirs' = [dirs EXCEPT ![name].git = "staged"]
          ELSE Set(r, Thrown(tried)) /\ UNCHANGED dirs
  /\ UNCHANGED <<temps, clock, templateSource>>

GitCommit(r) ==
  /\ runs[r].pc = "gitCommit"
  /\ \E outcome \in Outcomes :
       LET name == runs[r].projectName
           tried == Say(runs[r], "git commit")
       IN IF outcome = "ok"
          THEN /\ Set(r, [tried EXCEPT !.pc = AfterGit(flags(runs[r].args))])
               /\ dirs' = [dirs EXCEPT ![name].git = "committed"]
          ELSE Set(r, Thrown(tried)) /\ UNCHANGED dirs
  /\ UNCHANGED <<temps, clock, templateSource>>

\* execAsync(`code "${projectPath}"`)
OpenEditor(r) ==
  /\ runs[r].pc = "open"
  /\ \E outcome \in Outcomes :
       LET tried == Say(runs[r], "code")
       IN Set(r, IF outcome = "ok" THEN [tried EXCEPT !.pc = "summary"]
                                   ELSE Thrown(tried))
  /\ UNCHANGED <<dirs, temps, clock, templateSource>>

\* clack.outro(`Project ${projectName} is ready`); the next steps; main() returns
Summary(r) ==
  /\ runs[r].pc = "summary"
  /\ Set(r, Exit(Say(Say(runs[r], "outro:Project is ready"),
                     runCmd(getPackageManager(flags(runs[r].args)))), 0))
  /\ UNCHANGED <<dirs, temps, clock, templateSource>>

(***************************************************************************)
(* Specifications.                                                         *)
(***************************************************************************)
NoFlags == [tokens |-> {}, positional |-> <<>>]
LocalOnly == [tokens |-> {"--testing", "--skip-install", "--skip-git"}, positional |-> <<>>]

\* one invocation: every command line with a user of few words, and the plain
\* command lines with the users that answer every prompt in every way
Scenarios ==
  {[args |-> a, variant |-> v, tty |-> TerseUser] : a \in CommandLines, v \in Variants}
  \cup {[args |-> a, variant |-> v, tty |-> Describer] :
          a \in {NoFlags, LocalOnly}, v \in Variants}
  \cup {[args |-> a, variant |-> "index", tty |-> Author] : a \in {NoFlags, LocalOnly}}

EmptyCwd == [n \in ValidNames |-> NoDir]
\* the working directory either is empty or holds a directory named a
Cwds == {EmptyCwd, [EmptyCwd EXCEPT ![<<"a">>] = ForeignDir]}

Init ==
  /\ \E s \in Scenarios :
       runs = [r \in Runs |-> IF r = "A" THEN NewRun(s.args, s.variant, s.tty)
                              ELSE IdleRun]
  /\ dirs \in Cwds
  /\ temps = [t \in Times |-> NoTemp]
  /\ clock = 0
  /\ templateSource = Templates

Step(r) ==
  \/ ShowHelp(r)
  \/ ShowVersion(r)
  \/ EnterMain(r)
  \/ SelectFramework(r)
  \/ UseCliProjectName(r)
  \/ AskProjectName(r)
  \/ AskDescription(r)
  \/ ConfirmAgentsMd(r)
  \/ SelectAgentsOption(r)
  \/ AskContent(r)
  \/ SelectRuntime(r)
  \/ EditMinimalContent(r)
  \/ Guard(r)
  \/ CopyTemplate(r)
  \/ CloneTemplate(r)
  \/ MoveTemplate(r)
  \/ RemoveTemp(r)
  \/ ReadPackageJson(r)
  \/ WritePackageJson(r)
  \/ ReadLayout(r)
  \/ WriteLayout(r)
  \/ WriteAgentsMd(r)
  \/ Install(r)
  \/ GitInit(r)
  \/ GitAdd(r)
  \/ GitCommit(r)
  \/ OpenEditor(r)
  \/ Summary(r)

Next == \E r \in Runs : Step(r)

Spec == Init /\ [][Next]_vars

(***************************************************************************)
(* Two invocations started from the same working directory.                *)
(***************************************************************************)
RaceUser ==
  [framework    |-> Choice(FrameworkOptions),
   name         |-> Choice({<<"a">>, <<"-">>}),
   description  |-> Choice({<<>>}),
   createAgents |-> Choice(BOOLEAN),
   agentsOption |-> Choice({"blank-edit", "minimal-edit"}),
   content      |-> Choice({<<>>}),
   runtime      |-> Choice({"bun"}),
   edited       |-> Choice({<<>>})]

RaceCommandLines ==
  {NoFlags,
   [tokens |-> {"--testing", "--open"}, positional |-> << <<"a">> >>],
   [tokens |-> {"-h"}, positional |-> <<>>],
   [tokens |-> {"-v"}, positional |-> <<>>]}

InitRace ==
  /\ \E a \in RaceCommandLines, b \in RaceCommandLines, v \in Variants :
       runs = [r \in Runs |-> IF r = "A" THEN NewRun(a, "index", RaceUser)
                              ELSE NewRun(b, v, RaceUser)]
  /\ dirs = EmptyCwd
  /\ temps = [t \in Times |-> NoTemp]
  /\ clock = 0
  /\ templateSource = {[present |-> TRUE, pkg |-> PkgOk, layout |-> LayoutCanonical]}

SpecRace == InitRace /\ [][Next]_vars

(***************************************************************************)
(* Reading a run's log.                                                    *)
(***************************************************************************)
Has(r, line) == \E i \in DOMAIN runs[r].log : runs[r].log[i] = line

Count(r, line) == Cardinality({i \in DOMAIN runs[r].log : runs[r].log[i] = line})

\* the log ends with the lines of tail
EndsWith(r, tail) ==
  LET log == runs[r].log
  IN /\ Len(log) >= Len(tail)
     /\ SubSeq(log, Len(log) - Len(tail) + 1, Len(log)) = tail

IsPrefix(a, b) == Len(a) <= Len(b) /\ SubSeq(b, 1, Len(a)) = a

PromptLines ==
  {"select:framework", "text:project name", "text:description", "confirm:AGENTS.md",
   "select:AGENTS.md mode", "text:AGENTS.md content", "select:runtime",
   "text:edit AGENTS.md"}

GuardLines == {"fs.access:exists", "fs.access:absent"}

InstallLines == {"bun install", "npm install", "pnpm install"}

AcquisitionLines == {"fs.cp", "exec:git clone", "fs.rename", "fs.rm"}

PersonalizationLines ==
  {"fs.readFile:package.json", "fs.writeFile:package.json", "fs.readFile:layout.tsx",
   "fs.writeFile:layout.tsx", "fs.writeFile:AGENTS.md"}

GitLines == {"git init", "git add .", "git commit"}

\* acquisition, personalization, install, git and editor steps
WorkLines ==
  AcquisitionLines \cup PersonalizationLines \cup InstallLines \cup GitLines \cup {"code"}

Ready == "outro:Project is ready"

IsStepLine(line) == line \in GuardLines \cup WorkLines \cup {Ready}

\* the side-effecting steps of the run, in the order they were started
Steps(r) == SelectSeq(runs[r].log, IsStepLine)

Exited(r, code) == runs[r].pc = "exited" /\ runs[r].exitCode = code

Succeeded(r) == Exited(r, 0) /\ Has(r, Ready)

\* the run went past the help and version checks
InMain(r) == runs[r].pc \notin {"off", "start"} /\ Has(r, "intro")

(***************************************************************************)
(* C1: a run whose existence guard finds something at <cwd>/<ProjectName>  *)
(* exits with code 1 right after the "already exists" message, has run no  *)
(* acquisition, personalization, install, git or editor step, and the      *)
(* directory is as it was.                                                 *)
(***************************************************************************)
C1_ExistingDirectoryIsHardStop ==
  \A r \in Runs :
    Has(r, "fs.access:exists") =>
      /\ Exited(r, 1)
      /\ EndsWith(r, <<"fs.access:exists", "cancel:Directory already exists">>)
      /\ \A line \in WorkLines : ~Has(r, line)
      /\ dirs[runs[r].projectName] = ForeignDir

C1_Witness ==
  /\ Has("A", "cancel:Directory already exists")
  /\ runs["A"].projectName = <<"a">>
  /\ dirs[<<"a">>] = ForeignDir

\* a positional name is malformed when it is empty or holds a character outside
\* [a-z0-9-]
HasBadChar(name) == \E i \in 1..Len(name) : name[i] \notin NameChars

Malformed(args) ==
  HasCliProjectName(args) /\ (Len(cliProjectName(args)) = 0 \/ HasBadChar(cliProjectName(args)))

\* C2 as stated: with a malformed positional name (empty, or with a character
\* outside [a-z0-9-]) the run shows no prompt, does no filesystem or subprocess
\* operation, and ends with exit code 1
C2_Original ==
  \A r \in Runs :
    InMain(r) /\ Malformed(runs[r].args) =>
      /\ \A line \in PromptLines \cup GuardLines \cup WorkLines : ~Has(r, line)
      /\ runs[r].pc = "exited" => runs[r].exitCode = 1

\* C2, amended: a positional name that holds a character outside [a-z0-9-]
\* is rejected at the name check: no project-name prompt and no later prompt is
\* shown, no filesystem or subprocess operation is done, and the run ends with
\* exit code 1 after the validation message, unless the framework prompt, which
\* index.js shows before the check, was cancelled or answered "vite" (exit 0).
\* An empty positional name counts as no name: the run asks for the name.
C2_MalformedCliNameIsRejected ==
  \A r \in Runs :
    /\ InMain(r) /\ HasCliProjectName(runs[r].args)
         /\ HasBadChar(cliProjectName(runs[r].args)) =>
         /\ \A line \in (PromptLines \ {"select:framework"}) \cup GuardLines \cup WorkLines :
              ~Has(r, line)
         /\ runs[r].pc \in {"framework", "name", "exited"}
         /\ runs[r].pc = "exited" =>
              \/ /\ runs[r].exitCode = 1
                 /\ EndsWith(r, <<"Project name must be lowercase, alphanumeric, and can contain hyphens",
                                  "cancel:Invalid project name">>)
              \/ /\ runs[r].exitCode = 0
                 /\ runs[r].variant = "index"
                 /\ \/ EndsWith(r, <<"select:framework", "user:cancel",
                                     "cancel:Operation cancelled">>)
                    \/ EndsWith(r, <<"select:framework", "log.info:Coming soon!",
                                     "outro:Stay tuned for Vite support">>)
    /\ InMain(r) /\ HasCliProjectName(runs[r].args)
         /\ Len(cliProjectName(runs[r].args)) = 0 =>
         /\ ~Has(r, "cancel:Invalid project name")
         /\ runs[r].pc \notin {"framework", "name", "exited"} => Has(r, "text:project name")

C2_Witness ==
  /\ HasBadChar(cliProjectName(runs["A"].args))
  /\ runs["A"].variant = "index"
  /\ Exited("A", 1)
  /\ EndsWith("A", <<"select:framework",
                     "Project name must be lowercase, alphanumeric, and can contain hyphens",
                     "cancel:Invalid project name">>)

HasPlaceholder(text) == \E i \in 1..Len(text) : text[i] = PH

(***************************************************************************)
(* C3: in a run that ends in the success state the manifest name is the    *)
(* project name, the layout's title is the project name with no            *)
(* placeholder left anywhere, and a non-blank description is, trimmed, the *)
(* value of the layout's description field.                                *)
(***************************************************************************)
C3_Original ==
  \A r \in Runs :
    Succeeded(r) =>
      LET d == dirs[runs[r].projectName]
      IN /\ d.pkg = [state |-> "ok", name |-> runs[r].projectName]
         /\ d.layout.title = runs[r].projectName
         /\ ~HasPlaceholder(d.layout.body)
         /\ DescriptionGiven(runs[r].projectDescription) =>
              d.layout.desc = trim(runs[r].projectDescription)

(***************************************************************************)
(* C4: a run in which the user cancelled a prompt exits with code 0 at     *)
(* that prompt: the cancellation message is the last thing it does, and it *)
(* has done no existence check, acquisition, file write or subprocess.     *)
(***************************************************************************)
C4_CancelExitsZero ==
  \A r \in Runs :
    Has(r, "user:cancel") =>
      /\ Exited(r, 0)
      /\ Count(r, "user:cancel") = 1
      /\ EndsWith(r, <<"user:cancel", "cancel:Operation cancelled">>)
      /\ runs[r].log[Len(runs[r].log) - 2] \in PromptLines
      /\ \A line \in GuardLines \cup WorkLines \cup {Ready} : ~Has(r, line)

C4_Witness ==
  /\ Exited("A", 0)
  /\ EndsWith("A", <<"select:runtime", "text:edit AGENTS.md", "user:cancel",
                     "cancel:Operation cancelled">>)

FailureReport ==
  <<"throw", "s.stop:Error occurred", "log.error:error.message", "cancel:Setup failed">>

(***************************************************************************)
(* C5: a run in which an operation of the try block threw ends with exit   *)
(* code 1 right after the failure report; the operation that threw is the  *)
(* last step of the run, no step is ever started twice, and the success    *)
(* summary is not printed.                                                 *)
(***************************************************************************)
C5_FailureIsTerminal ==
  \A r \in Runs :
    /\ \A line \in GuardLines \cup WorkLines \cup {"throw", Ready} : Count(r, line) <= 1
    /\ Has(r, "throw") =>
         /\ Exited(r, 1)
         /\ EndsWith(r, FailureReport)
         /\ runs[r].log[Len(runs[r].log) - 4] \in WorkLines
         /\ ~Has(r, Ready)

C5_Witness ==
  /\ Exited("A", 1)
  /\ EndsWith("A", <<"git add .", "git commit">> \o FailureReport)

ExpectedSteps(r) ==
  LET f == flags(runs[r].args)
  IN <<"fs.access:absent">>
     \o (IF f.testing THEN <<"fs.cp">> ELSE <<"exec:git clone", "fs.rename", "fs.rm">>)
     \o <<"fs.readFile:package.json", "fs.writeFile:package.json",
          "fs.readFile:layout.tsx", "fs.writeFile:layout.tsx">>
     \o (IF runs[r].variant = "index" /\ ~runs[r].agentsContent.null
         THEN <<"fs.writeFile:AGENTS.md">> ELSE <<>>)
     \o (IF f.skipInstall THEN <<>>
         ELSE IF f.useNpm THEN <<"npm install">>
              ELSE IF f.usePnpm THEN <<"pnpm install">> ELSE <<"bun install">>)
     \o (IF f.skipGit THEN <<>> ELSE <<"git init", "git add .", "git commit">>)
     \o (IF f.open THEN <<"code">> ELSE <<>>)
     \o <<Ready>>

(***************************************************************************)
(* C6: the steps a run has started are a prefix of one fixed sequence:     *)
(* existence guard, acquisition, personalization, install unless           *)
(* --skip-install, git init, git add, git commit unless --skip-git, editor *)
(* launch if --open, success summary; a run that succeeds has done exactly *)
(* that sequence.                                                          *)
(***************************************************************************)
C6_FixedStepOrder ==
  \A r \in Runs :
    /\ \/ Steps(r) = <<"fs.access:exists">>
       \/ IsPrefix(Steps(r), ExpectedSteps(r))
    /\ Succeeded(r) => Steps(r) = ExpectedSteps(r)
    /\ Has(r, Ready) => Succeeded(r)

C6_Witness ==
  /\ Succeeded("A")
  /\ flags(runs["A"].args).skipGit
  /\ flags(runs["A"].args).open
  /\ ~flags(runs["A"].args).skipInstall
  /\ Has("A", "bun install") /\ Has("A", "code") /\ ~Has("A", "git init")

CleanupThrew(r) ==
  \E i \in DOMAIN runs[r].log :
    /\ i > 1
    /\ runs[r].log[i] = "throw"
    /\ runs[r].log[i - 1] = "fs.rm"

(***************************************************************************)
(* C7: a run whose removal of the temporary clone directory threw does not *)
(* end with exit code 1.                                                   *)
(***************************************************************************)
C7_Original == \A r \in Runs : CleanupThrew(r) => ~Exited(r, 1)

(***************************************************************************)
(* C8: two runs with different project names never use the same temporary  *)
(* clone path.                                                             *)
(***************************************************************************)
C8_Original ==
  \A r1, r2 \in Runs :
    /\ r1 # r2
    /\ runs[r1].tempPath # -1
    /\ runs[r2].tempPath # -1
    /\ runs[r1].projectName # runs[r2].projectName
    => runs[r1].tempPath # runs[r2].tempPath

(***************************************************************************)
(* C9: with -h or --help the run prints the usage text and exits 0, and    *)
(* otherwise with -v or --version it prints the version and exits 0; in    *)
(* both cases that is all the run ever does, whatever the positional name. *)
(***************************************************************************)
C9_HelpAndVersionFirst ==
  \A r \in Runs :
    LET f == flags(runs[r].args)
    IN /\ f.help /\ runs[r].pc \notin {"off", "start"} =>
            Exited(r, 0) /\ runs[r].log = <<"showHelp">>
       /\ ~f.help /\ f.version /\ runs[r].pc \notin {"off", "start"} =>
            Exited(r, 0) /\ runs[r].log = <<"showVersion">>
       /\ f.help \/ f.version => dirs \in Cwds /\ temps = [t \in Times |-> NoTemp]

C9_Witness ==
  /\ flags(runs["A"].args).help
  /\ flags(runs["A"].args).version
  /\ Malformed(runs["A"].args)
  /\ HasBadChar(cliProjectName(runs["A"].args))
  /\ Exited("A", 0)
  /\ runs["A"].log = <<"showHelp">>

(***************************************************************************)
(* C10: the existence check reserves nothing: the step by which a run      *)
(* passes the guard leaves every directory as it is, so that a second run  *)
(* checking the same path afterwards passes too; both runs then acquire    *)
(* the template for the same path.                                         *)
(***************************************************************************)
C10_GuardReservesNothing ==
  [][\A r \in Runs :
       runs[r].pc = "guard" /\ runs'[r].pc = "acquire" => dirs' = dirs]_vars

C10_Witness ==
  /\ runs["A"].projectName = runs["B"].projectName
  /\ \A r \in Runs :
       /\ Has(r, "fs.access:absent")
       /\ ~Has(r, "cancel:Directory already exists")
       /\ Has(r, "fs.cp") \/ Has(r, "exec:git clone")

====
